---- MODULE Spec2Model ----
(***************************************************************************)
(* Multiplayer core of fighter-jet-game: the room registry, the           *)
(* matchmaking queue and the presence directory of redis_client.py,        *)
(* modelled over the Redis keyspace they share.  Every Redis command is    *)
(* atomic; a Python function is a sequence of commands.  Spec runs each    *)
(* function to completion before the next one starts; the Race and Leave   *)
(* specifications interleave the commands of functions that run in         *)
(* different workers; the Timed and Presence specifications let seconds    *)
(* pass between calls, so that keys run out.                               *)
(***************************************************************************)
EXTENDS Integers, Sequences, FiniteSets, TLC

\* ---------------------------------------------------------------- inputs
Players == {"p1", "p2", "p3"}
Codes == {"c1", "c2"}
Modes == {"coop", "versus"}
Difficulties == {"MEDIUM"}
Workers == {"w1", "w2"}
None == "none"

\* The name a client sends for itself; find_match seats its caller under the
\* presence name, or under DefaultName when the caller has no presence record.
NameOf(p) == p
DefaultName == "Player"

\* Number of datetime.now() readings join_matchmaking may take in one run:
\* beside the room registry (Spec), and in the matchmaking specifications.
MaxEnqueue == 1
MaxRaceEnqueue == 2
MaxClock == 3
\* Seconds between two looks at the matchmaking keys, and the last second
\* looked at.
QueueTick == 60
MaxQueueTime == 240
\* The last second looked at in the presence directory, and the seconds
\* between two looks.
MaxPresenceTime == 35
\* Seconds between two looks at the room keys, and the last second looked at.
RoomTick == 300
MaxRoomTime == 600
PresenceTick == 15

\* ------------------------------------------------------------- constants
PLAYER_TTL == 30
ROOM_TTL == 300
MATCHMAKING_TTL == 120
PLAYING_TTL == ROOM_TTL * 4
FINISHED_TTL == 60
\* range(10) in create_room
Attempts == 10
\* Redis: a key without a time to live; an absent key has ttl 0 here.
NoExpiry == -1
\* A timestamp field that is not in the hash.
NoTime == -1

VARIABLES
    db,     \* the Redis keyspace
    last,   \* the call that ended last and what it returned
    pc,     \* per worker: the command of its function it runs next
    loc     \* per worker: the function's arguments and local variables

vars == <<db, last, pc, loc>>

\* -------------------------------------------------------------- keyspace
\* The hash room:<code>.  A field that is not in the hash is None (NoTime for
\* the two timestamps, has_players FALSE for 'players'); the hash exists
\* iff some field is in it.  mode stands for the fields only create_room
\* writes (code, mode, difficulty, created_at).
NoRoom ==
    [mode |-> None, host_id |-> None, host_name |-> None, status |-> None,
     has_players |-> FALSE, players |-> <<>>,
     started_at |-> NoTime, ended_at |-> NoTime, winner_id |-> None]

\* The hash player:<id>: the fields of the presence record the model follows.
\* A field that is not in the hash is None (name) or -1 (score, lastUpdate);
\* the hash exists iff some field is in it.
NoPlayer == [name |-> None, score |-> -1, lastUpdate |-> -1]

EmptyDb ==
    [room |-> [c \in Codes |-> NoRoom],
     room_ttl |-> [c \in Codes |-> 0],
     room_players |-> [c \in Codes |-> {}],
     room_players_ttl |-> [c \in Codes |-> 0],
     player_room |-> [p \in Players |-> None],
     player_room_ttl |-> [p \in Players |-> 0],
     matchmaking |-> [m \in Modes |-> <<>>],
     matchmaking_ttl |-> [m \in Modes |-> 0],
     in_queue |-> [p \in Players |-> None],
     in_queue_ttl |-> [p \in Players |-> 0],
     player |-> [p \in Players |-> NoPlayer],
     player_ttl |-> [p \in Players |-> 0],
     clock |-> 0,
     now |-> 0]

\* r.exists(f"room:{code}")
RoomExists(d, code) == d.room[code] # NoRoom

\* r.hset(f"room:{code}", ...): the hash after the write; a hash the write
\* creates has no time to live.
HSetRoom(d, code, rec) ==
    [d EXCEPT !.room[code] = rec,
              !.room_ttl[code] = IF d.room[code] = NoRoom THEN NoExpiry ELSE @]

\* r.expire(f"room:{code}", ttl): nothing on an absent key.
ExpireRoom(d, code, ttl) ==
    IF RoomExists(d, code) THEN [d EXCEPT !.room_ttl[code] = ttl] ELSE d

\* r.delete(f"room:{code}")
DelRoom(d, code) == [d EXCEPT !.room[code] = NoRoom, !.room_ttl[code] = 0]

\* r.sadd(f"room_players:{code}", pid)
SAddRoomPlayers(d, code, pid) ==
    [d EXCEPT !.room_players[code] = @ \cup {pid},
              !.room_players_ttl[code] =
                  IF d.room_players[code] = {} THEN NoExpiry ELSE @]

\* r.srem(f"room_players:{code}", pid): Redis drops a set that becomes empty.
SRemRoomPlayers(d, code, pid) ==
    [d EXCEPT !.room_players[code] = @ \ {pid},
              !.room_players_ttl[code] =
                  IF d.room_players[code] \ {pid} = {} THEN 0 ELSE @]

\* r.expire(f"room_players:{code}", ttl)
ExpireRoomPlayers(d, code, ttl) ==
    IF d.room_players[code] # {}
    THEN [d EXCEPT !.room_players_ttl[code] = ttl] ELSE d

\* r.delete(f"room_players:{code}")
DelRoomPlayers(d, code) ==
    [d EXCEPT !.room_players[code] = {}, !.room_players_ttl[code] = 0]

\* r.set(f"player_room:{pid}", code, ex=ttl)
SetPlayerRoom(d, pid, code, ttl) ==
    [d EXCEPT !.player_room[pid] = code, !.player_room_ttl[pid] = ttl]

\* r.delete(f"player_room:{pid}")
DelPlayerRoom(d, pid) ==
    [d EXCEPT !.player_room[pid] = None, !.player_room_ttl[pid] = 0]

\* r.set(f"in_queue:{pid}", mode, ex=ttl)
SetInQueue(d, pid, mode, ttl) ==
    [d EXCEPT !.in_queue[pid] = mode, !.in_queue_ttl[pid] = ttl]

\* r.delete(f"in_queue:{pid}")
DelInQueue(d, pid) ==
    [d EXCEPT !.in_queue[pid] = None, !.in_queue_ttl[pid] = 0]

\* The members of a sequence that satisfy nothing but "is not e", in order.
RECURSIVE Without(_, _)
Without(seq, e) ==
    IF seq = <<>> THEN <<>>
    ELSE IF Head(seq) = e THEN Without(Tail(seq), e)
    ELSE <<Head(seq)>> \o Without(Tail(seq), e)

\* r.zadd(f"matchmaking:{mode}", {entry: now}): scores are the clock, which
\* only grows, so the sorted set is the sequence of entries in insertion order.
ZAddMatchmaking(d, mode, entry) ==
    [d EXCEPT !.matchmaking[mode] = Without(@, entry) \o <<entry>>,
              !.matchmaking_ttl[mode] =
                  IF d.matchmaking[mode] = <<>> THEN NoExpiry ELSE @]

\* r.zrem(f"matchmaking:{mode}", entry): removes the member if it is there;
\* Redis drops a sorted set that becomes empty.
ZRemMatchmaking(d, mode, entry) ==
    [d EXCEPT !.matchmaking[mode] = Without(@, entry),
              !.matchmaking_ttl[mode] =
                  IF Without(d.matchmaking[mode], entry) = <<>> THEN 0 ELSE @]

\* r.expire(f"matchmaking:{mode}", ttl)
ExpireMatchmaking(d, mode, ttl) ==
    IF d.matchmaking[mode] # <<>>
    THEN [d EXCEPT !.matchmaking_ttl[mode] = ttl] ELSE d

\* r.exists(f"player:{player_id}")
PlayerExists(d, pid) == d.player[pid] # NoPlayer

\* r.hset(f"player:{player_id}", mapping=fields): the fields of the mapping
\* are written, every other field of the hash stays.
HSetPlayer(d, pid, fields) ==
    [d EXCEPT !.player[pid] =
                  [name |-> IF fields.name # None THEN fields.name ELSE @.name,
                   score |-> IF fields.score # -1 THEN fields.score ELSE @.score,
                   lastUpdate |-> IF fields.lastUpdate # -1
                                  THEN fields.lastUpdate ELSE @.lastUpdate],
              !.player_ttl[pid] = IF d.player[pid] = NoPlayer THEN NoExpiry ELSE @]

\* r.expire(f"player:{player_id}", ttl)
ExpirePlayer(d, pid, ttl) ==
    IF PlayerExists(d, pid) THEN [d EXCEPT !.player_ttl[pid] = ttl] ELSE d

\* r.delete(f"player:{player_id}")
DelPlayer(d, pid) == [d EXCEPT !.player[pid] = NoPlayer, !.player_ttl[pid] = 0]

\* Key expiry.  A time to live is what is left of it; dt seconds later a key
\* whose time has run out is gone (Redis: now > when), so a key set with ttl
\* at time t is still read at t + ttl and no longer after it.
Lapsed(ttl, dt) == ttl # NoExpiry /\ ttl < dt

Aged(ttl, dt) ==
    IF ttl = NoExpiry THEN NoExpiry ELSE IF ttl < dt THEN 0 ELSE ttl - dt

\* The keyspace dt seconds later, with no command in between.
Elapse(d, dt) ==
    [d EXCEPT
       !.room = [c \in Codes |-> IF Lapsed(d.room_ttl[c], dt) THEN NoRoom ELSE @[c]],
       !.room_ttl = [c \in Codes |-> Aged(@[c], dt)],
       !.room_players =
           [c \in Codes |-> IF Lapsed(d.room_players_ttl[c], dt) THEN {} ELSE @[c]],
       !.room_players_ttl = [c \in Codes |-> Aged(@[c], dt)],
       !.player_room =
           [p \in Players |-> IF Lapsed(d.player_room_ttl[p], dt) THEN None ELSE @[p]],
       !.player_room_ttl = [p \in Players |-> Aged(@[p], dt)],
       !.matchmaking =
           [m \in Modes |-> IF Lapsed(d.matchmaking_ttl[m], dt) THEN <<>> ELSE @[m]],
       !.matchmaking_ttl = [m \in Modes |-> Aged(@[m], dt)],
       !.in_queue =
           [p \in Players |-> IF Lapsed(d.in_queue_ttl[p], dt) THEN None ELSE @[p]],
       !.in_queue_ttl = [p \in Players |-> Aged(@[p], dt)],
       !.player =
           [p \in Players |-> IF Lapsed(d.player_ttl[p], dt) THEN NoPlayer ELSE @[p]],
       !.player_ttl = [p \in Players |-> Aged(@[p], dt)],
       !.now = @ + dt]

\* ---------------------------------------------------------- room registry
\* The code the loop of create_room ends with: the first candidate that
\* names no room, or the last candidate when all Attempts of them collide.
RECURSIVE PickCode(_, _, _)
PickCode(d, cands, i) ==
    IF i = Attempts \/ ~RoomExists(d, cands[i]) THEN cands[i]
    ELSE PickCode(d, cands, i + 1)

\* Candidate streams of generate_room_code: one code, then another repeated.
CandSeqs ==
    {[i \in 1..Attempts |-> IF i = 1 THEN a ELSE b] : a \in Codes, b \in Codes}

\* json.dumps(players): the roster as the JSON text stored in the field
\* 'players', entry by entry the JSON value of each key: strings and numbers
\* as they are, a bool as the literal true or false.
json_dumps(players) ==
    [i \in 1..Len(players) |->
        [id |-> players[i].id, name |-> players[i].name,
         ready |-> IF players[i].ready THEN "true" ELSE "false",
         slot |-> players[i].slot]]

\* json_loads taking every literal that is not empty for True.
json_loads_truthy(text) ==
    [i \in 1..Len(text) |->
        [id |-> text[i].id, name |-> text[i].name,
         ready |-> text[i].ready # "", slot |-> text[i].slot]]

\* json.loads(data['players']): the roster the stored text stands for.
json_loads(text) ==
    [i \in 1..Len(text) |->
        [id |-> text[i].id, name |-> text[i].name,
         ready |-> text[i].ready = "true", slot |-> text[i].slot]]

\* hset(room:<code>, mapping=room_data): the fields of the mapping are
\* written, every other field of an existing hash stays.
RoomData(old, host_id, host_name, mode) ==
    [old EXCEPT !.mode = mode, !.host_id = host_id, !.host_name = host_name,
                !.status = "waiting", !.has_players = TRUE,
                !.players = json_dumps(<<[id |-> host_id, name |-> host_name,
                                          ready |-> FALSE, slot |-> 1]>>)]

\* create_room, from the chosen code on.
create_room_write(d, code, host_id, host_name, mode) ==
    LET d1 == HSetRoom(d, code, RoomData(d.room[code], host_id, host_name, mode))
        d2 == ExpireRoom(d1, code, ROOM_TTL)
        d3 == SAddRoomPlayers(d2, code, host_id)
        d4 == ExpireRoomPlayers(d3, code, ROOM_TTL)
    IN SetPlayerRoom(d4, host_id, code, ROOM_TTL)

create_room(d, cands, host_id, host_name, mode) ==
    LET code == PickCode(d, cands, 1)
    IN [db |-> create_room_write(d, code, host_id, host_name, mode), ret |-> code]

\* get_room: the hash with 'players' parsed if it is there, NoRoom for None.
get_room(d, code) ==
    IF d.room[code].has_players
    THEN [d.room[code] EXCEPT !.players = json_loads(@)]
    ELSE d.room[code]

\* any(p['id'] == player_id for p in players)
Seated(players, pid) == \E i \in 1..Len(players) : players[i].id = pid

\* join_room_check with the roster test off by one (> for >=).
join_room_check_gt(room, pid) ==
    IF room = NoRoom THEN "Room not found"
    ELSE IF room.status = None THEN "KeyError"
    ELSE IF room.status # "waiting" THEN "Game already started"
    ELSE IF ~room.has_players THEN "KeyError"
    ELSE IF Len(room.players) > 2 THEN "Room is full"
    ELSE IF Seated(room.players, pid) THEN "seated"
    ELSE "ok"

\* join_room_check without the test for a full roster.
join_room_check_nofull(room, pid) ==
    IF room = NoRoom THEN "Room not found"
    ELSE IF room.status = None THEN "KeyError"
    ELSE IF room.status # "waiting" THEN "Game already started"
    ELSE IF ~room.has_players THEN "KeyError"
    ELSE IF Seated(room.players, pid) THEN "seated"
    ELSE "ok"

\* The checks of join_room on the room it read: the error it returns, the
\* KeyError a missing field raises, "seated" for the early return of the
\* room, "ok" when it goes on to write.
join_room_check(room, pid) ==
    IF room = NoRoom THEN "Room not found"
    ELSE IF room.status = None THEN "KeyError"
    ELSE IF room.status # "waiting" THEN "Game already started"
    ELSE IF ~room.has_players THEN "KeyError"
    ELSE IF Len(room.players) >= 2 THEN "Room is full"
    ELSE IF Seated(room.players, pid) THEN "seated"
    ELSE "ok"

\* join_room_players seating the new player in front of the roster.
join_room_players_front(room, pid, name) ==
    <<[id |-> pid, name |-> name, ready |-> FALSE, slot |-> 2]>> \o room.players

\* players.append({...}) on the roster join_room read.
join_room_players(room, pid, name) ==
    Append(room.players, [id |-> pid, name |-> name, ready |-> FALSE, slot |-> 2])

\* r.hset(f"room:{code}", 'players', json.dumps(players))
HSetPlayers(d, code, players) ==
    HSetRoom(d, code, [d.room[code] EXCEPT !.has_players = TRUE,
                                           !.players = json_dumps(players)])

\* The writes of join_room, on the room it read before.
join_room_write(d, code, pid, name, room) ==
    LET d1 == HSetPlayers(d, code, join_room_players(room, pid, name))
        d2 == SAddRoomPlayers(d1, code, pid)
        d3 == ExpireRoom(d2, code, ROOM_TTL)
        d4 == ExpireRoomPlayers(d3, code, ROOM_TTL)
    IN SetPlayerRoom(d4, pid, code, ROOM_TTL)

join_room(d, code, pid, name) ==
    LET room == get_room(d, code)
        chk == join_room_check(room, pid)
    IN IF chk = "ok"
       THEN [db |-> join_room_write(d, code, pid, name, room), ret |-> "room"]
       ELSE IF chk = "seated" THEN [db |-> d, ret |-> "room"]
       ELSE [db |-> d, ret |-> chk]

\* [p for p in players if p['id'] != player_id]
RECURSIVE Others(_, _)
Others(players, pid) ==
    IF players = <<>> THEN <<>>
    ELSE IF Head(players).id = pid THEN Others(Tail(players), pid)
    ELSE <<Head(players)>> \o Others(Tail(players), pid)

\* leave_room_write leaving host_id and host_name as they are.
leave_room_write_nopromote(d, code, pid, room) ==
    LET players == Others(room.players, pid)
        d1 == SRemRoomPlayers(d, code, pid)
        d2 == DelPlayerRoom(d1, pid)
    IN IF Len(players) = 0
       THEN [db |-> DelRoomPlayers(DelRoom(d2, code), code), ret |-> "True"]
       ELSE [db |-> HSetPlayers(d2, code, players), ret |-> "True"]

\* The writes of leave_room, on the room it read before.  room['host_id']
\* raises KeyError after the roster is written when the hash read had none.
leave_room_write(d, code, pid, room) ==
    LET players == Others(room.players, pid)
        d1 == SRemRoomPlayers(d, code, pid)
        d2 == DelPlayerRoom(d1, pid)
    IN IF Len(players) = 0
       THEN [db |-> DelRoomPlayers(DelRoom(d2, code), code), ret |-> "True"]
       ELSE LET d3 == HSetPlayers(d2, code, players)
            IN IF room.host_id = None THEN [db |-> d3, ret |-> "KeyError"]
               ELSE IF room.host_id = pid
               THEN [db |-> HSetRoom(d3, code,
                              [d3.room[code] EXCEPT !.host_id = players[1].id,
                                                    !.host_name = players[1].name]),
                     ret |-> "True"]
               ELSE [db |-> d3, ret |-> "True"]

leave_room(d, code, pid) ==
    LET room == get_room(d, code)
    IN IF room = NoRoom THEN [db |-> d, ret |-> "False"]
       ELSE IF ~room.has_players THEN [db |-> d, ret |-> "KeyError"]
       ELSE leave_room_write(d, code, pid, room)

\* for p in players: if p['id'] == player_id: p['ready'] = ready; break
RECURSIVE MarkReady(_, _, _)
MarkReady(players, pid, ready) ==
    IF players = <<>> THEN <<>>
    ELSE IF Head(players).id = pid
    THEN <<[Head(players) EXCEPT !.ready = ready]>> \o Tail(players)
    ELSE <<Head(players)>> \o MarkReady(Tail(players), pid, ready)

\* set_player_ready_write setting the flag of every roster entry.
set_player_ready_write_all(d, code, pid, ready, room) ==
    LET players == [i \in 1..Len(room.players) |->
                       [room.players[i] EXCEPT !.ready = ready]]
    IN ExpireRoom(HSetPlayers(d, code, players), code, ROOM_TTL)

\* The writes of set_player_ready, on the room it read before.
set_player_ready_write(d, code, pid, ready, room) ==
    LET players == MarkReady(room.players, pid, ready)
        d1 == HSetPlayers(d, code, players)
    IN ExpireRoom(d1, code, ROOM_TTL)

set_player_ready(d, code, pid, ready) ==
    LET room == get_room(d, code)
    IN IF room = NoRoom THEN [db |-> d, ret |-> "None"]
       ELSE IF ~room.has_players THEN [db |-> d, ret |-> "KeyError"]
       ELSE [db |-> set_player_ready_write(d, code, pid, ready, room),
             ret |-> "room"]

\* all(p['ready'] for p in players)
AllReady(players) == \A i \in 1..Len(players) : players[i].ready

\* The checks of start_room_game on the room it read.
start_room_game_check(room) ==
    IF room = NoRoom THEN "False"
    ELSE IF ~room.has_players THEN "KeyError"
    ELSE IF Len(room.players) < 2 THEN "False"
    ELSE IF ~AllReady(room.players) THEN "False"
    ELSE "True"

\* The writes of start_room_game.
start_room_game_write(d, code) ==
    LET d1 == HSetRoom(d, code, [d.room[code] EXCEPT !.status = "playing"])
        d2 == HSetRoom(d1, code, [d1.room[code] EXCEPT !.started_at = d.now])
    IN ExpireRoom(d2, code, PLAYING_TTL)

start_room_game(d, code) ==
    LET chk == start_room_game_check(get_room(d, code))
    IN IF chk = "True" THEN [db |-> start_room_game_write(d, code), ret |-> "True"]
       ELSE [db |-> d, ret |-> chk]

\* end_room_game: it reads nothing; winner_id None is not written.
end_room_game(d, code, winner_id) ==
    LET d1 == HSetRoom(d, code, [d.room[code] EXCEPT !.status = "finished"])
        d2 == HSetRoom(d1, code, [d1.room[code] EXCEPT !.ended_at = d.now])
        d3 == IF winner_id # None
              THEN HSetRoom(d2, code, [d2.room[code] EXCEPT !.winner_id = winner_id])
              ELSE d2
    IN [db |-> ExpireRoom(d3, code, FINISHED_TTL), ret |-> "None"]

get_player_room(d, pid) == d.player_room[pid]

\* get_player: the hash, NoPlayer for None.
get_player(d, pid) == d.player[pid]

\* player_data.get('name', 'Player') if player_data else 'Player'
PlayerName(data) ==
    IF data # NoPlayer /\ data.name # None THEN data.name ELSE DefaultName

\* ----------------------------------------------------- presence directory
\* The score a player_update request may carry; -1: it carries none.
Scores == {-1, 1}

\* player_data of player_join: name, score 0 and lastUpdate = time.time().
JoinData(d, name) == [name |-> name, score |-> 0, lastUpdate |-> d.now]

\* updates of player_update: lastUpdate = time.time() and the fields given.
UpdateData(d, score) == [name |-> None, score |-> score, lastUpdate |-> d.now]

\* set_player: the fields of data, then the lease.
set_player(d, pid, data) ==
    [db |-> ExpirePlayer(HSetPlayer(d, pid, data), pid, PLAYER_TTL),
     ret |-> "None"]

\* update_player that writes the fields and leaves the lease as it is.
update_player_nolease(d, pid, updates) ==
    IF ~PlayerExists(d, pid) THEN [db |-> d, ret |-> "False"]
    ELSE [db |-> HSetPlayer(d, pid, updates), ret |-> "True"]

update_player(d, pid, updates) ==
    IF ~PlayerExists(d, pid) THEN [db |-> d, ret |-> "False"]
    ELSE [db |-> ExpirePlayer(HSetPlayer(d, pid, updates), pid, PLAYER_TTL),
          ret |-> "True"]

delete_player(d, pid) == [db |-> DelPlayer(d, pid), ret |-> "None"]

\* ------------------------------------------------------ matchmaking queue
\* join_matchmaking: datetime.now() is the clock after one more tick.
join_matchmaking(d, pid, name, mode, difficulty) ==
    LET now == d.clock + 1
        entry == [id |-> pid, name |-> name, difficulty |-> difficulty,
                  joined_at |-> now]
        d1 == ZAddMatchmaking([d EXCEPT !.clock = now], mode, entry)
        d2 == ExpireMatchmaking(d1, mode, MATCHMAKING_TTL)
    IN [db |-> SetInQueue(d2, pid, mode, MATCHMAKING_TTL), ret |-> "True"]

\* Index of the first entry of the queue that the test accepts, 0 for none.
RECURSIVE FirstIndex(_, _, _, _)
FirstIndex(queue, pid, same, i) ==
    IF i > Len(queue) THEN 0
    ELSE IF (queue[i].id = pid) = same THEN i
    ELSE FirstIndex(queue, pid, same, i + 1)

\* The loop of leave_matchmaking over the queue it read: zrem of the first
\* entry whose id is the player's.
leave_matchmaking_scan(d, pid, mode, queue) ==
    LET i == FirstIndex(queue, pid, TRUE, 1)
    IN IF i = 0 THEN d ELSE ZRemMatchmaking(d, mode, queue[i])

leave_matchmaking(d, pid) ==
    LET mode == d.in_queue[pid]
    IN IF mode = None THEN [db |-> d, ret |-> "False"]
       ELSE [db |-> DelInQueue(
                        leave_matchmaking_scan(d, pid, mode, d.matchmaking[mode]),
                        pid),
             ret |-> "True"]

is_in_queue(d, pid) == d.in_queue[pid]

\* get_queue_position: 1-based index of the player's first entry, 0 for none.
get_queue_position(d, pid, mode) == FirstIndex(d.matchmaking[mode], pid, TRUE, 1)

\* find_match_pick taking the oldest entry whoever owns it.
find_match_pick_first(queue, pid) == IF queue = <<>> THEN 0 ELSE 1

\* find_match_pick taking the newest entry of another player.
find_match_pick_last(queue, pid) ==
    LET others == {i \in 1..Len(queue) : queue[i].id # pid}
    IN IF others = {} THEN 0
       ELSE CHOOSE i \in others : \A j \in others : j <= i

\* The entry find_match picks from the queue it read: the first one whose
\* id is not the caller's (index 0: there is none).
find_match_pick(queue, pid) == FirstIndex(queue, pid, FALSE, 1)

\* find_match from the picked entry to the removal of both queue entries.
find_match_consume(d, pid, mode, entry) ==
    LET d1 == ZRemMatchmaking(d, mode, entry)
        d2 == DelInQueue(d1, entry.id)
    IN leave_matchmaking(d2, pid).db

\* find_match from create_room on: the room for the pair.
find_match_room(d, cands, pid, mode, entry) ==
    LET made == create_room(d, cands, entry.id, entry.name, mode)
        data == get_player(made.db, pid)
        name == PlayerName(data)
        joined == join_room(made.db, made.ret, pid, name)
    IN [db |-> joined.db, ret |-> made.ret]

\* find_match reading the coop queue whatever mode it is asked for.
find_match_coop(d, cands, pid, mode) ==
    LET queue == d.matchmaking["coop"]
        i == find_match_pick(queue, pid)
    IN IF i = 0
       THEN [db |-> d, ret |-> None, opponent |-> None, isHost |-> FALSE,
             queue_position |-> get_queue_position(d, pid, mode)]
       ELSE LET room == find_match_room(
                            find_match_consume(d, pid, mode, queue[i]),
                            cands, pid, mode, queue[i])
            IN [db |-> room.db, ret |-> room.ret, opponent |-> queue[i].id,
                isHost |-> FALSE, queue_position |-> 0]

\* find_match: ret is the room code of the match, None for matched False.
find_match(d, cands, pid, mode) ==
    LET queue == d.matchmaking[mode]
        i == find_match_pick(queue, pid)
    IN IF i = 0
       THEN [db |-> d, ret |-> None, opponent |-> None, isHost |-> FALSE,
             queue_position |-> get_queue_position(d, pid, mode)]
       ELSE LET room == find_match_room(
                            find_match_consume(d, pid, mode, queue[i]),
                            cands, pid, mode, queue[i])
            IN [db |-> room.db, ret |-> room.ret, opponent |-> queue[i].id,
                isHost |-> FALSE, queue_position |-> 0]

\* GET /api/matchmaking/status: a player with no queue back-reference is told
\* the room of their back-reference (ret: the code, None for inQueue False
\* alone); a queued player runs find_match for the mode of the back-reference.
matchmaking_status(d, cands, pid) ==
    LET mode == is_in_queue(d, pid)
    IN IF mode = None THEN [db |-> d, ret |-> get_player_room(d, pid)]
       ELSE LET r == find_match(d, cands, pid, mode)
            IN [db |-> r.db, ret |-> r.ret]

\* ------------------------------------------ one call at a time (Spec)
NoCall == [op |-> "init", ret |-> None]

\* No queue entry picked.
NoEntry == [id |-> None, name |-> None, difficulty |-> None, joined_at |-> 0]

\* The local variables of a call: its arguments, what it read from the
\* keyspace (room, queue, entry picked, mode of the caller's back-reference)
\* and, once it has returned, its return value.
NoLocals ==
    [op |-> None, code |-> None, pid |-> None, name |-> None, mode |-> None,
     updates |-> NoPlayer,
     room |-> NoRoom, queue |-> <<>>, entry |-> NoEntry, own_mode |-> None,
     ret |-> None]

Init ==
    /\ db = EmptyDb
    /\ last = NoCall
    /\ pc = [w \in Workers |-> "idle"]
    /\ loc = [w \in Workers |-> NoLocals]

\* Candidate streams over the codes of cs.
Cands(cs) == {x \in CandSeqs : \A i \in 1..Attempts : x[i] \in cs}

CreateRoom(cands, pid, mode) ==
    LET r == create_room(db, cands, pid, NameOf(pid), mode)
    IN /\ db' = r.db
       /\ last' = [op |-> "CreateRoom", ret |-> r.ret]
       /\ UNCHANGED <<pc, loc>>

JoinRoom(code, pid) ==
    LET r == join_room(db, code, pid, NameOf(pid))
    IN /\ db' = r.db
       /\ last' = [op |-> "JoinRoom", ret |-> r.ret]
       /\ UNCHANGED <<pc, loc>>

LeaveRoom(code, pid) ==
    LET r == leave_room(db, code, pid)
    IN /\ db' = r.db
       /\ last' = [op |-> "LeaveRoom", ret |-> r.ret]
       /\ UNCHANGED <<pc, loc>>

SetReady(code, pid, ready) ==
    LET r == set_player_ready(db, code, pid, ready)
    IN /\ db' = r.db
       /\ last' = [op |-> "SetReady", ret |-> r.ret]
       /\ UNCHANGED <<pc, loc>>

StartGame(code) ==
    LET r == start_room_game(db, code)
    IN /\ db' = r.db
       /\ last' = [op |-> "StartGame", ret |-> r.ret]
       /\ UNCHANGED <<pc, loc>>

EndGame(code, winner_id) ==
    LET r == end_room_game(db, code, winner_id)
    IN /\ db' = r.db
       /\ last' = [op |-> "EndGame", ret |-> r.ret]
       /\ UNCHANGED <<pc, loc>>

Enqueue(pid, mode, difficulty, budget) ==
    LET r == join_matchmaking(db, pid, NameOf(pid), mode, difficulty)
    IN /\ db.clock < budget
       /\ db' = r.db
       /\ last' = [op |-> "Enqueue", ret |-> r.ret]
       /\ UNCHANGED <<pc, loc>>

Dequeue(pid) ==
    LET r == leave_matchmaking(db, pid)
    IN /\ db' = r.db
       /\ last' = [op |-> "Dequeue", ret |-> r.ret]
       /\ UNCHANGED <<pc, loc>>

FindMatch(cands, pid, mode) ==
    LET r == find_match(db, cands, pid, mode)
    IN /\ db' = r.db
       /\ last' = [op |-> "FindMatch", ret |-> r.ret]
       /\ UNCHANGED <<pc, loc>>

\* join_matchmaking by a caller who has looked the player up with
\* is_in_queue first and found no back-reference.
CheckedEnqueue(pid, mode, difficulty, budget) ==
    /\ is_in_queue(db, pid) = None
    /\ Enqueue(pid, mode, difficulty, budget)

MatchmakingStatus(cands, pid) ==
    LET r == matchmaking_status(db, cands, pid)
    IN /\ db' = r.db
       /\ last' = [op |-> "MatchmakingStatus", ret |-> r.ret]
       /\ UNCHANGED <<pc, loc>>

SetPlayer(pid) ==
    LET r == set_player(db, pid, JoinData(db, NameOf(pid)))
    IN /\ db' = r.db
       /\ last' = [op |-> "SetPlayer", ret |-> r.ret]
       /\ UNCHANGED <<pc, loc>>

UpdatePlayer(pid, score) ==
    LET r == update_player(db, pid, UpdateData(db, score))
    IN /\ db' = r.db
       /\ last' = [op |-> "UpdatePlayer", ret |-> r.ret]
       /\ UNCHANGED <<pc, loc>>

DeletePlayer(pid) ==
    LET r == delete_player(db, pid)
    IN /\ db' = r.db
       /\ last' = [op |-> "DeletePlayer", ret |-> r.ret]
       /\ UNCHANGED <<pc, loc>>

\* dt seconds pass with no call running, up to the second horizon.
Tick(dt, horizon) ==
    /\ db.now + dt <= horizon
    /\ db' = Elapse(db, dt)
    /\ last' = [op |-> "Tick", ret |-> None]
    /\ UNCHANGED <<pc, loc>>

\* The room registry on the codes cs, called by the players ps.
Registry(cs, ps, winners) ==
    \/ \E cands \in Cands(cs), pid \in ps : CreateRoom(cands, pid, "versus")
    \/ \E code \in cs, pid \in ps : JoinRoom(code, pid)
    \/ \E code \in cs, pid \in ps : LeaveRoom(code, pid)
    \/ \E code \in cs, pid \in ps, ready \in BOOLEAN : SetReady(code, pid, ready)
    \/ \E code \in cs : StartGame(code)
    \/ \E code \in cs, winner_id \in winners : EndGame(code, winner_id)

\* Registry and find_match together, one call at a time, on one room code;
\* p1 and p2 are the players who queue.
Next ==
    \/ Registry({"c1"}, Players, {None})
    \/ \E pid \in {"p1", "p2"}, difficulty \in Difficulties :
           Enqueue(pid, "versus", difficulty, MaxEnqueue)
    \/ \E cands \in Cands({"c1"}), pid \in Players : FindMatch(cands, pid, "versus")

Spec == Init /\ [][Next]_vars

\* The room registry alone, on one room code.
NextRooms == Registry({"c1"}, Players, {None, "p1"})

SpecRooms == Init /\ [][NextRooms]_vars

\* The room registry of p1 and p2 over time.
NextRoomsTimed ==
    \/ Registry({"c1"}, {"p1", "p2"}, {None})
    \/ Tick(RoomTick, MaxRoomTime)

SpecRoomsTimed == Init /\ [][NextRoomsTimed]_vars

\* The rosters of one room code: seating, leaving and ready flags.
NextRoster ==
    \/ \E cands \in Cands({"c1"}), pid \in Players : CreateRoom(cands, pid, "versus")
    \/ \E pid \in Players : JoinRoom("c1", pid)
    \/ \E pid \in Players : LeaveRoom("c1", pid)
    \/ \E pid \in Players, ready \in BOOLEAN : SetReady("c1", pid, ready)

SpecRoster == Init /\ [][NextRoster]_vars

\* Two room codes and two players: rooms made by hand and by matchmaking.
NextTwoRooms ==
    \/ \E cands \in Cands(Codes), pid \in {"p1", "p2"} :
           CreateRoom(cands, pid, "versus")
    \/ \E code \in Codes, pid \in {"p1", "p2"} : JoinRoom(code, pid)
    \/ \E code \in Codes, pid \in {"p1", "p2"} : LeaveRoom(code, pid)
    \/ \E pid \in {"p1", "p2"}, difficulty \in Difficulties :
           Enqueue(pid, "versus", difficulty, MaxEnqueue)
    \/ \E cands \in Cands(Codes), pid \in {"p1", "p2"} :
           FindMatch(cands, pid, "versus")

SpecTwoRooms == Init /\ [][NextTwoRooms]_vars

\* The matchmaking queue: both modes, rooms only by find_match.
NextMatch ==
    \/ \E pid \in Players, mode \in Modes, difficulty \in Difficulties :
           Enqueue(pid, mode, difficulty, MaxClock)
    \/ \E pid \in Players : Dequeue(pid)
    \/ \E cands \in Cands(Codes), pid \in Players, mode \in Modes :
           FindMatch(cands, pid, mode)

SpecMatch == Init /\ [][NextMatch]_vars

\* The matchmaking queue with one room code for the matches.
NextQueue ==
    \/ \E pid \in Players, mode \in Modes, difficulty \in Difficulties :
           Enqueue(pid, mode, difficulty, MaxClock)
    \/ \E pid \in Players : Dequeue(pid)
    \/ \E cands \in Cands({"c1"}), pid \in Players, mode \in Modes :
           FindMatch(cands, pid, mode)

SpecQueue == Init /\ [][NextQueue]_vars

\* The matchmaking queue over time: p1 and p2 queue, every enqueue follows a
\* membership check, keys expire between calls.
NextMatchTimed ==
    \/ \E pid \in {"p1", "p2"}, mode \in Modes, difficulty \in Difficulties :
           CheckedEnqueue(pid, mode, difficulty, MaxClock)
    \/ \E pid \in {"p1", "p2"} : Dequeue(pid)
    \/ \E cands \in Cands({"c1"}), pid \in Players, mode \in Modes :
           FindMatch(cands, pid, mode)
    \/ \E cands \in Cands({"c1"}), pid \in {"p1", "p2"} :
           MatchmakingStatus(cands, pid)
    \/ Tick(QueueTick, MaxQueueTime)

SpecMatchTimed == Init /\ [][NextMatchTimed]_vars

\* The presence directory of p1 and p2 over time.
NextPresence ==
    \/ \E pid \in {"p1", "p2"} : SetPlayer(pid)
    \/ \E pid \in {"p1", "p2"}, score \in Scores : UpdatePlayer(pid, score)
    \/ \E pid \in {"p1", "p2"} : DeletePlayer(pid)
    \/ \E dt \in {1, PresenceTick} : Tick(dt, MaxPresenceTime)

SpecPresence == Init /\ [][NextPresence]_vars

\* ------------------------------------- calls command by command (races)
\* A worker runs one call, one Redis command per step, and ends in "done".
Goto(w, label, l) ==
    /\ pc' = [pc EXCEPT ![w] = label]
    /\ loc' = [loc EXCEPT ![w] = l]
    /\ UNCHANGED last

Return(w, l, ret) ==
    /\ pc' = [pc EXCEPT ![w] = "done"]
    /\ loc' = [loc EXCEPT ![w] = [l EXCEPT !.ret = ret]]
    /\ last' = [op |-> l.op, ret |-> ret]

\* join_room returned jret; find_match ignores it and returns its match.
JoinReturn(w, l, jret) ==
    IF l.op = "FindMatch" THEN Return(w, l, l.code) ELSE Return(w, l, jret)

\* join_room: room = get_room(code) and the checks on it.
JrRead(w, l) ==
    LET room == get_room(db, l.code)
        chk == join_room_check(room, l.pid)
    IN /\ UNCHANGED db
       /\ IF chk = "ok" THEN Goto(w, "jr_hset", [l EXCEPT !.room = room])
          ELSE JoinReturn(w, l, IF chk = "seated" THEN "room" ELSE chk)

BeginJoinRoom(w, code, pid) ==
    /\ pc[w] = "idle"
    /\ JrRead(w, [NoLocals EXCEPT !.op = "JoinRoom", !.code = code,
                                  !.pid = pid, !.name = NameOf(pid)])

JrReadNested(w) ==
    /\ pc[w] = "jr_read"
    /\ JrRead(w, loc[w])

JrHSet(w) ==
    /\ pc[w] = "jr_hset"
    /\ db' = HSetPlayers(db, loc[w].code,
                         join_room_players(loc[w].room, loc[w].pid, loc[w].name))
    /\ Goto(w, "jr_sadd", loc[w])

JrSAdd(w) ==
    /\ pc[w] = "jr_sadd"
    /\ db' = SAddRoomPlayers(db, loc[w].code, loc[w].pid)
    /\ Goto(w, "jr_expire_room", loc[w])

JrExpireRoom(w) ==
    /\ pc[w] = "jr_expire_room"
    /\ db' = ExpireRoom(db, loc[w].code, ROOM_TTL)
    /\ Goto(w, "jr_expire_players", loc[w])

JrExpirePlayers(w) ==
    /\ pc[w] = "jr_expire_players"
    /\ db' = ExpireRoomPlayers(db, loc[w].code, ROOM_TTL)
    /\ Goto(w, "jr_set", loc[w])

JrSet(w) ==
    /\ pc[w] = "jr_set"
    /\ db' = SetPlayerRoom(db, loc[w].pid, loc[w].code, ROOM_TTL)
    /\ JoinReturn(w, loc[w], "room")

JoinRoomSteps(w) ==
    \/ JrHSet(w)
    \/ JrSAdd(w)
    \/ JrExpireRoom(w)
    \/ JrExpirePlayers(w)
    \/ JrSet(w)

\* find_match: queue = r.zrange(...), and the entry the loop stops at.
BeginFindMatch(w, pid, mode) ==
    LET queue == db.matchmaking[mode]
        i == find_match_pick(queue, pid)
        l == [NoLocals EXCEPT !.op = "FindMatch", !.pid = pid, !.mode = mode,
                              !.queue = queue]
    IN /\ pc[w] = "idle"
       /\ UNCHANGED db
       /\ IF i = 0 THEN Goto(w, "fm_position", l)
          ELSE Goto(w, "fm_zrem", [l EXCEPT !.entry = queue[i]])

\* No entry of another player: get_queue_position reads the queue again.
FmPosition(w) ==
    /\ pc[w] = "fm_position"
    /\ UNCHANGED db
    /\ Return(w, loc[w], None)

FmZRem(w) ==
    /\ pc[w] = "fm_zrem"
    /\ db' = ZRemMatchmaking(db, loc[w].mode, loc[w].entry)
    /\ Goto(w, "fm_del", loc[w])

FmDel(w) ==
    /\ pc[w] = "fm_del"
    /\ db' = DelInQueue(db, loc[w].entry.id)
    /\ Goto(w, "lm_get", loc[w])

\* leave_matchmaking(player_id) inside find_match.
LmGet(w) ==
    /\ pc[w] = "lm_get"
    /\ UNCHANGED db
    /\ IF db.in_queue[loc[w].pid] = None THEN Goto(w, "cr_pick", loc[w])
       ELSE Goto(w, "lm_zrange",
                 [loc[w] EXCEPT !.own_mode = db.in_queue[loc[w].pid]])

LmZRange(w) ==
    /\ pc[w] = "lm_zrange"
    /\ UNCHANGED db
    /\ Goto(w, "lm_zrem",
            [loc[w] EXCEPT !.queue = db.matchmaking[loc[w].own_mode]])

LmZRem(w) ==
    /\ pc[w] = "lm_zrem"
    /\ db' = leave_matchmaking_scan(db, loc[w].pid, loc[w].own_mode, loc[w].queue)
    /\ Goto(w, "lm_del", loc[w])

LmDel(w) ==
    /\ pc[w] = "lm_del"
    /\ db' = DelInQueue(db, loc[w].pid)
    /\ Goto(w, "cr_pick", loc[w])

\* create_room(data['id'], data['name'], mode, difficulty) inside find_match:
\* the loop of r.exists over the candidate codes.
CrPick(w, cands) ==
    /\ pc[w] = "cr_pick"
    /\ UNCHANGED db
    /\ Goto(w, "cr_hset", [loc[w] EXCEPT !.code = PickCode(db, cands, 1)])

CrHSet(w) ==
    /\ pc[w] = "cr_hset"
    /\ db' = HSetRoom(db, loc[w].code,
                      RoomData(db.room[loc[w].code], loc[w].entry.id,
                               loc[w].entry.name, loc[w].mode))
    /\ Goto(w, "cr_expire_room", loc[w])

CrExpireRoom(w) ==
    /\ pc[w] = "cr_expire_room"
    /\ db' = ExpireRoom(db, loc[w].code, ROOM_TTL)
    /\ Goto(w, "cr_sadd", loc[w])

CrSAdd(w) ==
    /\ pc[w] = "cr_sadd"
    /\ db' = SAddRoomPlayers(db, loc[w].code, loc[w].entry.id)
    /\ Goto(w, "cr_expire_players", loc[w])

CrExpirePlayers(w) ==
    /\ pc[w] = "cr_expire_players"
    /\ db' = ExpireRoomPlayers(db, loc[w].code, ROOM_TTL)
    /\ Goto(w, "cr_set", loc[w])

CrSet(w) ==
    /\ pc[w] = "cr_set"
    /\ db' = SetPlayerRoom(db, loc[w].entry.id, loc[w].code, ROOM_TTL)
    /\ Goto(w, "fm_get_player", loc[w])

\* player_data = get_player(player_id) and the name taken from it.
FmGetPlayer(w) ==
    LET data == get_player(db, loc[w].pid)
    IN /\ pc[w] = "fm_get_player"
       /\ UNCHANGED db
       /\ Goto(w, "jr_read",
               [loc[w] EXCEPT !.name = PlayerName(data)])

FindMatchSteps(w) ==
    \/ FmPosition(w)
    \/ FmZRem(w)
    \/ FmDel(w)
    \/ LmGet(w)
    \/ LmZRange(w)
    \/ LmZRem(w)
    \/ LmDel(w)
    \/ \E cands \in Cands(Codes) : CrPick(w, cands)
    \/ CrHSet(w)
    \/ CrExpireRoom(w)
    \/ CrSAdd(w)
    \/ CrExpirePlayers(w)
    \/ CrSet(w)
    \/ FmGetPlayer(w)
    \/ JrReadNested(w)
    \/ JoinRoomSteps(w)

\* update_player: the test r.exists(...).
BeginUpdatePlayer(w, pid, score) ==
    LET l == [NoLocals EXCEPT !.op = "UpdatePlayer", !.pid = pid,
                              !.updates = UpdateData(db, score)]
    IN /\ pc[w] = "idle"
       /\ UNCHANGED db
       /\ IF PlayerExists(db, pid) THEN Goto(w, "up_hset", l)
          ELSE Return(w, l, "False")

UpHSet(w) ==
    /\ pc[w] = "up_hset"
    /\ db' = HSetPlayer(db, loc[w].pid, loc[w].updates)
    /\ Goto(w, "up_expire", loc[w])

UpExpire(w) ==
    /\ pc[w] = "up_expire"
    /\ db' = ExpirePlayer(db, loc[w].pid, PLAYER_TTL)
    /\ Return(w, loc[w], "True")

\* No worker has started its call.
Idle == \A w \in Workers : pc[w] = "idle"

\* Two workers each join a room that a completed create_room made.
NextJoinRace ==
    \/ /\ Idle
       /\ \E cands \in Cands({"c1"}), pid \in Players :
              CreateRoom(cands, pid, "versus")
    \/ \E w \in Workers, pid \in Players : BeginJoinRoom(w, "c1", pid)
    \/ \E w \in Workers : JoinRoomSteps(w)

SpecJoinRace == Init /\ [][NextJoinRace]_vars

\* Two workers each run find_match on a queue that completed
\* join_matchmaking calls filled.
NextMatchRace ==
    \/ /\ Idle
       /\ \E pid \in Players, difficulty \in Difficulties :
              Enqueue(pid, "versus", difficulty, MaxRaceEnqueue)
    \/ \E w \in Workers, pid \in Players : BeginFindMatch(w, pid, "versus")
    \/ \E w \in Workers : FindMatchSteps(w)

SpecMatchRace == Init /\ [][NextMatchRace]_vars

\* Two workers run update_player on records that set_player made, while
\* records are deleted or run out.
NextPresenceRace ==
    \/ \E pid \in {"p1", "p2"} : SetPlayer(pid)
    \/ \E pid \in {"p1", "p2"} : DeletePlayer(pid)
    \/ Tick(PLAYER_TTL + 1, MaxPresenceTime)
    \/ \E w \in Workers, pid \in {"p1", "p2"}, score \in Scores :
           BeginUpdatePlayer(w, pid, score)
    \/ \E w \in Workers : UpHSet(w)
    \/ \E w \in Workers : UpExpire(w)

SpecPresenceRace == Init /\ [][NextPresenceRace]_vars

\* One worker runs find_match while the players it seats may leave the room
\* (a whole leave_room between two commands of find_match).
NextMatchLeave ==
    \/ /\ Idle
       /\ \E pid \in Players, difficulty \in Difficulties :
              Enqueue(pid, "versus", difficulty, MaxRaceEnqueue)
    \/ \E pid \in Players : BeginFindMatch("w1", pid, "versus")
    \/ FindMatchSteps("w1")
    \/ \E code \in Codes, pid \in Players : LeaveRoom(code, pid)

SpecMatchLeave == Init /\ [][NextMatchLeave]_vars

\* ================================================================ claims
\* The roster get_room returns for a code, empty when there is none.
Roster(d, code) == get_room(d, code).players

Ids(players) == [i \in 1..Len(players) |-> players[i].id]

\* C1: after any sequence of completed registry and matchmaking calls every
\* room's roster has at most 2 entries and names no player twice.
C1_RosterAtMostTwo ==
    \A c \in Codes :
        /\ Len(Roster(db, c)) <= 2
        /\ \A i, j \in 1..Len(Roster(db, c)) :
               i # j => Roster(db, c)[i].id # Roster(db, c)[j].id

\* A third player was just refused by a room whose roster holds two.
C1_Witness ==
    /\ last = [op |-> "JoinRoom", ret |-> "Room is full"]
    /\ \E c \in Codes : Len(Roster(db, c)) = 2

\* C3 as claimed: every player is in the roster of at most one existing room.
C3_OneRoomPerPlayer ==
    \A p \in Players :
        Cardinality({c \in Codes : Seated(Roster(db, c), p)}) <= 1

\* C4 as claimed: start_room_game returns True exactly when the room exists
\* with 2 roster entries, all ready, and then the room is playing with
\* started_at set; otherwise it returns False and the keyspace is unchanged.
C4_StartGameIff ==
    \A c \in Codes :
        LET r == start_room_game(db, c)
            can == /\ RoomExists(db, c)
                   /\ Len(Roster(db, c)) = 2
                   /\ AllReady(Roster(db, c))
        IN /\ (r.ret = "True") <=> can
           /\ r.ret = "True" =>
                  /\ r.db.room[c].status = "playing"
                  /\ r.db.room[c].started_at # NoTime
           /\ r.ret # "True" => r.ret = "False" /\ r.db = db

\* C6 as claimed: leave_room on an existing room returns True, unseats the
\* player and clears the back-reference, promotes the remaining player when
\* the host left, deletes the room with its last player; False on no room.
C6_LeaveRoom ==
    \A c \in Codes, p \in Players :
        LET r == leave_room(db, c, p)
            rest == Others(Roster(db, c), p)
        IN IF ~RoomExists(db, c) THEN r.ret = "False" /\ r.db = db
           ELSE /\ r.ret = "True"
                /\ ~Seated(Roster(r.db, c), p)
                /\ get_player_room(r.db, p) = None
                /\ (db.room[c].host_id = p /\ Len(rest) = 1) =>
                       /\ r.db.room[c].host_id = rest[1].id
                       /\ r.db.room[c].host_name = rest[1].name
                /\ rest = <<>> => get_room(r.db, c) = NoRoom

\* C7 as claimed: no StartGame, EndGame, SetReady, JoinRoom or LeaveRoom call
\* takes a playing or finished room back to waiting, or a finished room to
\* playing.
C7_StatusForward ==
    [][last'.op \in {"StartGame", "EndGame", "SetReady", "JoinRoom", "LeaveRoom"}
       => \A c \in Codes :
              /\ db.room[c].status \in {"playing", "finished"}
                     => db'.room[c].status # "waiting"
              /\ db.room[c].status = "finished"
                     => db'.room[c].status # "playing"]_vars

C9_JoinIdempotent ==
    \A c \in Codes, p \in Players :
        LET r == join_room(db, c, p, NameOf(p))
        IN (RoomExists(db, c) /\ Seated(Roster(db, c), p)) =>
               r.ret = "room" /\ Roster(r.db, c) = Roster(db, c)

\* C10 as claimed: find_match by p2 with another player's entry in the mode
\* queue matches the oldest such entry p1: the room returned has host p1 and
\* roster [p1, p2], neither has an entry left in the mode queue or a queue
\* back-reference, and p2's room back-reference is the room.
C10_FindMatchSuccess ==
    \A cands \in Cands(Codes), p2 \in Players, mode \in Modes :
        LET queue == db.matchmaking[mode]
            i == FirstIndex(queue, p2, FALSE, 1)
            r == find_match(db, cands, p2, mode)
        IN i # 0 =>
           /\ r.ret \in Codes
           /\ r.opponent = queue[i].id
           /\ ~r.isHost
           /\ r.db.room[r.ret].host_id = queue[i].id
           /\ Ids(Roster(r.db, r.ret)) = <<queue[i].id, p2>>
           /\ \A k \in 1..Len(r.db.matchmaking[mode]) :
                  r.db.matchmaking[mode][k].id \notin {queue[i].id, p2}
           /\ is_in_queue(r.db, queue[i].id) = None
           /\ is_in_queue(r.db, p2) = None
           /\ get_player_room(r.db, p2) = r.ret

\* C2 as claimed: of two find_match calls by different callers that both
\* picked the same opponent entry, at most one returns a match, and the
\* opponent is host of at most one room.
C2_OneConsumer ==
    \A w1, w2 \in Workers :
        (/\ w1 # w2
         /\ loc[w1].op = "FindMatch" /\ loc[w2].op = "FindMatch"
         /\ loc[w1].pid # loc[w2].pid
         /\ loc[w1].entry # NoEntry
         /\ loc[w1].entry = loc[w2].entry)
        => /\ ~(/\ pc[w1] = "done" /\ loc[w1].ret # None
                /\ pc[w2] = "done" /\ loc[w2].ret # None)
           /\ Cardinality({c \in Codes :
                               db.room[c].host_id = loc[w1].entry.id}) <= 1

\* C5: while two join_room calls by different players race for the last
\* slot of a waiting room, the stored roster never has more than 2 entries.
C5_RaceRosterAtMostTwo ==
    \A c \in Codes : Len(Roster(db, c)) <= 2

\* Both calls read the roster with one entry before either wrote, and both
\* returned the room.
C5_Witness ==
    /\ \A w \in Workers :
           /\ pc[w] = "done"
           /\ loc[w].op = "JoinRoom"
           /\ loc[w].ret = "room"
           /\ Len(loc[w].room.players) = 1
    /\ loc["w1"].pid # loc["w2"].pid
    /\ Len(Roster(db, "c1")) = 2

\* The ids of the players who have an entry in the queue of a mode.
Queued(d, mode) ==
    {d.matchmaking[mode][k].id : k \in 1..Len(d.matchmaking[mode])}

\* C11: find_match never returns its caller as the opponent, and on a mode
\* queue whose entries (one or several) all belong to the caller it returns
\* matched False and leaves the keyspace, so every room, as it was.
C11_NeverSelf ==
    \A cands \in Cands({"c1"}), p \in Players, mode \in Modes :
        LET r == find_match(db, cands, p, mode)
        IN /\ r.ret # None => r.opponent # p
           /\ Queued(db, mode) \subseteq {p} => r.ret = None /\ r.db = db

\* find_match just returned matched False to a caller who holds two entries
\* of a queue that nobody else is in.
C11_Witness ==
    /\ last = [op |-> "FindMatch", ret |-> None]
    /\ \E p \in Players, mode \in Modes :
           Queued(db, mode) = {p} /\ Len(db.matchmaking[mode]) >= 2

\* C12: the opponent find_match returns has an entry in the queue of the
\* mode asked for; a player other than the caller with no entry in that
\* queue keeps the entries and the back-reference they have and is not seated
\* in the room of the match.
C12_ModesApart ==
    \A cands \in Cands({"c1"}), p \in Players, mode \in Modes :
        LET r == find_match(db, cands, p, mode)
        IN /\ r.ret # None => r.opponent \in Queued(db, mode)
           /\ \A q \in Players \ (Queued(db, mode) \cup {p}) :
                  /\ \A m \in Modes : \A k \in 1..Len(db.matchmaking[m]) :
                         db.matchmaking[m][k].id = q =>
                             \E j \in 1..Len(r.db.matchmaking[m]) :
                                 r.db.matchmaking[m][j] = db.matchmaking[m][k]
                  /\ is_in_queue(r.db, q) = is_in_queue(db, q)
                  /\ r.ret # None => ~Seated(Roster(r.db, r.ret), q)

\* player1 waits in coop, player2 in versus, and find_match for versus just
\* returned matched False.
C12_Witness ==
    /\ last = [op |-> "FindMatch", ret |-> None]
    /\ \E p1, p2 \in Players :
           /\ p1 # p2
           /\ Queued(db, "coop") = {p1} /\ is_in_queue(db, p1) = "coop"
           /\ Queued(db, "versus") = {p2} /\ is_in_queue(db, p2) = "versus"

\* C13 as claimed: no player has entries in the queues of two modes, and a
\* player with an entry has a queue back-reference that names the mode of
\* the entry.
C13_OneModeQueue ==
    \A p \in Players :
        /\ Cardinality({m \in Modes : p \in Queued(db, m)}) <= 1
        /\ \A m \in Modes : p \in Queued(db, m) => is_in_queue(db, p) = m

\* C14 as claimed: after leave_matchmaking(p) no queue holds an entry of p
\* and p has no queue back-reference; for a player with neither entry nor
\* back-reference the call changes nothing.
C14_Dequeue ==
    \A p \in Players :
        LET r == leave_matchmaking(db, p)
        IN /\ \A m \in Modes : p \notin Queued(r.db, m)
           /\ is_in_queue(r.db, p) = None
           /\ (is_in_queue(db, p) = None /\ \A m \in Modes : p \notin Queued(db, m))
                  => r.db = db

\* C15 as claimed: when find_match returns a match, the room it names
\* exists, its host is the opponent consumed and the caller is in its roster.
C15_MatchThenJoin ==
    [][\A w \in Workers :
           (/\ pc[w] # "done" /\ pc'[w] = "done"
            /\ loc'[w].op = "FindMatch" /\ loc'[w].ret # None)
           => /\ RoomExists(db', loc'[w].ret)
              /\ db'.room[loc'[w].ret].host_id = loc'[w].entry.id
              /\ Seated(Roster(db', loc'[w].ret), loc'[w].pid)]_vars

\* C16 as claimed: update_player on an absent record returns False and
\* writes nothing, on a present record it returns True, writes the fields
\* given and keeps the others; and no step of a running update_player makes
\* an absent record present, whatever was deleted or ran out since its test.
C16_NoResurrect ==
    [][/\ \A p \in Players, score \in Scores :
              LET r == update_player(db, p, UpdateData(db, score))
              IN IF ~PlayerExists(db, p) THEN r.ret = "False" /\ r.db = db
                 ELSE /\ r.ret = "True"
                      /\ r.db.player[p].name = db.player[p].name
                      /\ r.db.player[p].lastUpdate = db.now
                      /\ r.db.player[p].score =
                             IF score # -1 THEN score ELSE db.player[p].score
       /\ \A p \in Players :
              (~PlayerExists(db, p) /\ PlayerExists(db', p)) => pc' = pc]_vars

\* C17: a record is read for 30 seconds from its last set_player or
\* successful update_player: no record is older than PLAYER_TTL seconds, and
\* time passing removes no record that is not older than that.
C17_Lease ==
    [][/\ \A p \in Players :
              PlayerExists(db', p) =>
                  db'.now - db'.player[p].lastUpdate <= PLAYER_TTL
       /\ \A p \in Players :
              (/\ db'.now > db.now
               /\ PlayerExists(db, p)
               /\ db'.now - db.player[p].lastUpdate <= PLAYER_TTL)
              => db'.player[p] = db.player[p]]_vars

\* A record updated at second 5 is read at second 35 and is the only one
\* left: the other, set at second 0 and never updated, is gone.
C17_Witness ==
    /\ db.now = 35
    /\ PlayerExists(db, "p1") /\ db.player["p1"].lastUpdate = 5
    /\ db.player["p1"].score = 1
    /\ ~PlayerExists(db, "p2")
    /\ last.op = "Tick"

\* C18 as claimed: a room on which end_room_game has run is gone once more
\* than 60 seconds have passed since, whatever was called on it in between.
C18_FinishedCleanup ==
    \A c \in Codes :
        (RoomExists(db, c) /\ db.room[c].ended_at # NoTime)
            => db.now - db.room[c].ended_at <= FINISHED_TTL

\* C19 as claimed: a player in the roster of an existing waiting or playing
\* room has that room's code as room back-reference.
C19_BackReference ==
    \A c \in Codes, p \in Players :
        (/\ RoomExists(db, c)
         /\ db.room[c].status \in {"waiting", "playing"}
         /\ Seated(Roster(db, c), p))
        => get_player_room(db, p) = c

\* Id and ready flag of every roster entry, in roster order.
Flags(players) == [i \in 1..Len(players) |-> <<players[i].id, players[i].ready>>]

\* C20: what get_room returns after a create_room, join_room,
\* set_player_ready or leave_room is the roster it returned before with
\* just that call's change: the ids in seating order (a new player last, a
\* leaver taken out), each flag as it was unless the call set it; and the
\* stored text is the text of the roster read from it.
C20_RoundTrip ==
    /\ \A c \in Codes : db.room[c].players = json_dumps(Roster(db, c))
    /\ \A cands \in Cands({"c1"}), p \in Players :
           LET r == create_room(db, cands, p, NameOf(p), "versus")
           IN Flags(Roster(r.db, r.ret)) = << <<p, FALSE>> >>
    /\ \A c \in Codes, p \in Players :
           LET old == Flags(Roster(db, c))
               jr == join_room(db, c, p, NameOf(p))
               lr == leave_room(db, c, p)
           IN RoomExists(db, c) =>
              /\ Flags(Roster(jr.db, c)) =
                     IF jr.ret = "room" /\ ~Seated(Roster(db, c), p)
                     THEN Append(old, <<p, FALSE>>) ELSE old
              /\ Flags(Roster(lr.db, c)) = SelectSeq(old, LAMBDA e : e[1] # p)
              /\ \A ready \in BOOLEAN :
                     Flags(Roster(set_player_ready(db, c, p, ready).db, c)) =
                         [i \in 1..Len(old) |->
                             IF old[i][1] = p THEN <<p, ready>> ELSE old[i]]

\* After the host left and a new player took the free seat, the second
\* player has just been set ready: two entries, the first not ready.
C20_Witness ==
    /\ last = [op |-> "SetReady", ret |-> "room"]
    /\ Len(Roster(db, "c1")) = 2
    /\ Roster(db, "c1")[1].slot = 2
    /\ ~Roster(db, "c1")[1].ready
    /\ Roster(db, "c1")[2].ready

\* ---------------------------------------------------------------------
\* Room codes, character by character.

\* chars of generate_room_code, one string per character.
chars ==
    <<"A", "B", "C", "D", "E", "F", "G", "H", "J", "K", "L", "M", "N", "P",
      "Q", "R", "S", "T", "U", "V", "W", "X", "Y", "Z",
      "2", "3", "4", "5", "6", "7", "8", "9">>

\* k of random.choices(chars, k=6).
CodeLength == 6

\* The picks of one call sit within MaxOffset places of one place of chars.
MaxOffset == 1

\* ''.join(random.choices(chars, k=6)) for the places picked.
generate_room_code(picks) == [j \in 1..CodeLength |-> chars[picks[j]]]

\* The places random.choices may pick, around the place start.
Picks(start) ==
    {[j \in 1..CodeLength |-> ((start + offs[j] - 1) % Len(chars)) + 1] :
        offs \in [1..CodeLength -> 0..MaxOffset]}

\* One call of generate_room_code on behalf of create_room.
GenerateRoomCode(picks) ==
    /\ last' = [op |-> "generate_room_code", ret |-> generate_room_code(picks)]
    /\ UNCHANGED <<db, pc, loc>>

InitCode ==
    /\ db = EmptyDb
    /\ last = [op |-> "init", ret |-> <<>>]
    /\ pc = [w \in Workers |-> "idle"]
    /\ loc = [w \in Workers |-> NoLocals]

NextCode ==
    \E start \in 1..Len(chars) : \E picks \in Picks(start) :
        GenerateRoomCode(picks)

SpecCode == InitCode /\ [][NextCode]_vars

\* C21: every room code generated for create_room has exactly 6 characters,
\* none of which is 0, O, 1, I or L.
C21_CodeAlphabet ==
    last.op = "generate_room_code" =>
        /\ Len(last.ret) = 6
        /\ \A j \in 1..Len(last.ret) : last.ret[j] \notin {"0", "O", "1", "I", "L"}

\* ---------------------------------------------------------------------
\* The relay: the handlers of websocket_handler.py that write through to the
\* room registry and then emit to the room.  A handler has no try/except:
\* when the store is unreachable (up = FALSE) the first command of the
\* registry call raises redis.ConnectionError, which leaves the handler
\* before its emit; so does the KeyError of a room hash without 'players'.
\* ret is "return" (nothing done), the name of the exception, or "emit".

\* How a handler goes on after a registry call that returned ret.
RelayOutcome(ret) == IF ret = "KeyError" THEN "KeyError" ELSE "emit"

handle_match_end(d, room_code, winner_id, up) ==
    IF room_code = None THEN [db |-> d, ret |-> "return"]
    ELSE IF ~up THEN [db |-> d, ret |-> "ConnectionError"]
    ELSE LET r == end_room_game(d, room_code, winner_id)
         IN [db |-> r.db, ret |-> RelayOutcome(r.ret)]

handle_game_over(d, room_code, up) ==
    IF room_code = None THEN [db |-> d, ret |-> "return"]
    ELSE IF ~up THEN [db |-> d, ret |-> "ConnectionError"]
    ELSE LET r == end_room_game(d, room_code, None)
         IN [db |-> r.db, ret |-> RelayOutcome(r.ret)]

handle_ready_status(d, room_code, player_id, ready, up) ==
    IF room_code = None \/ player_id = None THEN [db |-> d, ret |-> "return"]
    ELSE IF ~up THEN [db |-> d, ret |-> "ConnectionError"]
    ELSE LET r == set_player_ready(d, room_code, player_id, ready)
         IN [db |-> r.db, ret |-> RelayOutcome(r.ret)]

handle_game_started(d, room_code, up) ==
    IF room_code = None THEN [db |-> d, ret |-> "return"]
    ELSE IF ~up THEN [db |-> d, ret |-> "ConnectionError"]
    ELSE LET r == start_room_game(d, room_code)
         IN [db |-> r.db, ret |-> RelayOutcome(r.ret)]

\* The events that write through to the registry.
RelayEvents == {"match_end", "game_over", "ready_status", "game_started"}

HandleMatchEnd(room_code, winner_id, up) ==
    LET r == handle_match_end(db, room_code, winner_id, up)
    IN /\ db' = r.db
       /\ last' = [op |-> "match_end", ret |-> r.ret, code |-> room_code]
       /\ UNCHANGED <<pc, loc>>

HandleGameOver(room_code, up) ==
    LET r == handle_game_over(db, room_code, up)
    IN /\ db' = r.db
       /\ last' = [op |-> "game_over", ret |-> r.ret, code |-> room_code]
       /\ UNCHANGED <<pc, loc>>

HandleReadyStatus(room_code, player_id, ready, up) ==
    LET r == handle_ready_status(db, room_code, player_id, ready, up)
    IN /\ db' = r.db
       /\ last' = [op |-> "ready_status", ret |-> r.ret, code |-> room_code]
       /\ UNCHANGED <<pc, loc>>

HandleGameStarted(room_code, up) ==
    LET r == handle_game_started(db, room_code, up)
    IN /\ db' = r.db
       /\ last' = [op |-> "game_started", ret |-> r.ret, code |-> room_code]
       /\ UNCHANGED <<pc, loc>>

\* The relay on the codes cs for the players ps, the store up or not.
Relay(cs, ps, winners) ==
    \/ \E code \in cs \cup {None}, winner_id \in winners, up \in BOOLEAN :
           HandleMatchEnd(code, winner_id, up)
    \/ \E code \in cs \cup {None}, up \in BOOLEAN : HandleGameOver(code, up)
    \/ \E code \in cs \cup {None}, pid \in ps \cup {None}, ready \in BOOLEAN,
          up \in BOOLEAN :
           HandleReadyStatus(code, pid, ready, up)
    \/ \E code \in cs \cup {None}, up \in BOOLEAN : HandleGameStarted(code, up)

\* Rooms made and filled over the registry, events relayed to them.
NextRelay ==
    \/ \E cands \in Cands({"c1"}), pid \in {"p1", "p2"} :
           CreateRoom(cands, pid, "versus")
    \/ \E pid \in {"p1", "p2"} : JoinRoom("c1", pid)
    \/ \E pid \in {"p1", "p2"} : LeaveRoom("c1", pid)
    \/ Relay({"c1"}, {"p1", "p2"}, {None, "p1"})

SpecRelay == Init /\ [][NextRelay]_vars

\* C22: a relay event that names a room (and, for ready_status, a player)
\* is emitted to the room whatever became of its write to the registry.
C22_BroadcastFirst ==
    (/\ last.op \in RelayEvents
     /\ last.ret # "return") => last.ret = "emit"

\* ---------------------------------------------------------------------
\* The in-process player map of src/server.py: active_players guarded by
\* players_lock, under app.run(threaded=True), one worker per request
\* thread.  In this specification db is the memory of the process:
\* active_players[p] is the 'lastUpdate' of p's record (NoTime: no record),
\* players_lock is the thread that holds the lock (None: free), now is
\* time.time().  One step is one acquire, one release or one statement
\* that touches active_players; last tells whether the thread that took
\* the step held the lock.

\* PLAYER_TIMEOUT of src/server.py.
PLAYER_TIMEOUT == 30

\* The steps of time in the process and where they stop.
FallbackTick == 31
MaxFallbackTime == 62

NoProcess ==
    [active_players |-> [p \in Players |-> NoTime], players_lock |-> None,
     now |-> 0]

InitFallback ==
    /\ db = NoProcess
    /\ last = [op |-> "init", ret |-> None]
    /\ pc = [w \in Workers |-> "idle"]
    /\ loc = [w \in Workers |-> NoLocals]

\* The handlers that call cleanup_stale_players() first.
Sweepers == {"player_join", "player_update", "get_active_players"}

\* Where a request goes once it holds or has released the lock.
FirstLabel(op) == IF op \in Sweepers THEN "cs_acquire" ELSE "pl_acquire"

AfterSweep(op) ==
    IF op = "player_join" THEN "pj_acquire"
    ELSE IF op = "player_update" THEN "pu_acquire"
    ELSE "ga_acquire"

\* Thread w moves to label; the step touched active_players or not.
Moved(w, label) ==
    /\ pc' = [pc EXCEPT ![w] = label]
    /\ UNCHANGED loc

Touched(w) ==
    last' = [op |-> loc[w].op,
             ret |-> IF db.players_lock = w THEN "held" ELSE "not held"]

Untouched(what) == last' = [op |-> "players_lock", ret |-> what]

\* A request arrives; current_time = time.time() of its cleanup is read.
BeginRequest(w, op, pid) ==
    /\ pc[w] = "idle"
    /\ pc' = [pc EXCEPT ![w] = FirstLabel(op)]
    /\ loc' = [loc EXCEPT ![w] =
                  [NoLocals EXCEPT !.op = op, !.pid = pid,
                                   !.updates.lastUpdate = db.now]]
    /\ Untouched("request")
    /\ UNCHANGED db

\* with players_lock: entered at label at.
Acquire(w, at, next) ==
    /\ pc[w] = at
    /\ db.players_lock = None
    /\ db' = [db EXCEPT !.players_lock = w]
    /\ Moved(w, next)
    /\ Untouched("acquire")

\* The end of a with block.
Release(w, at, next) ==
    /\ pc[w] = at
    /\ db' = [db EXCEPT !.players_lock = None]
    /\ Moved(w, next)
    /\ Untouched("release")

\* cleanup_stale_players: the stale records are listed and deleted.
Swept(players, current_time) ==
    [p \in Players |->
        IF players[p] # NoTime /\ current_time - players[p] > PLAYER_TIMEOUT
        THEN NoTime ELSE players[p]]

CsSweep(w) ==
    /\ pc[w] = "cs_sweep"
    /\ db' = [db EXCEPT !.active_players =
                 Swept(db.active_players, loc[w].updates.lastUpdate)]
    /\ Moved(w, "cs_release")
    /\ Touched(w)

\* player_join: active_players[player_id] = {...} inside the with block.
PjWrite(w) ==
    /\ pc[w] = "pj_write"
    /\ db' = [db EXCEPT !.active_players[loc[w].pid] = db.now]
    /\ Moved(w, "pj_release")
    /\ Touched(w)

\* player_join: list(active_players.values()) of the response, after the
\* with block.
PjRead(w) ==
    /\ pc[w] = "pj_read"
    /\ UNCHANGED db
    /\ Moved(w, "done")
    /\ Touched(w)

\* player_update: the membership test, the update and sorted(values()).
PuWrite(w) ==
    /\ pc[w] = "pu_write"
    /\ db' = IF db.active_players[loc[w].pid] = NoTime THEN db
             ELSE [db EXCEPT !.active_players[loc[w].pid] = db.now]
    /\ Moved(w, "pu_release")
    /\ Touched(w)

\* player_leave: the membership test and the del.
PlDel(w) ==
    /\ pc[w] = "pl_del"
    /\ db' = [db EXCEPT !.active_players[loc[w].pid] = NoTime]
    /\ Moved(w, "pl_release")
    /\ Touched(w)

\* get_active_players: sorted(active_players.values()).
GaRead(w) ==
    /\ pc[w] = "ga_read"
    /\ UNCHANGED db
    /\ Moved(w, "ga_release")
    /\ Touched(w)

\* Time passes in the process.
FallbackTime ==
    /\ db.now + FallbackTick <= MaxFallbackTime
    /\ db' = [db EXCEPT !.now = db.now + FallbackTick]
    /\ Untouched("time")
    /\ UNCHANGED <<pc, loc>>

\* A finished request thread serves the next request.
NextRequest(w) ==
    /\ pc[w] = "done"
    /\ pc' = [pc EXCEPT ![w] = "idle"]
    /\ loc' = [loc EXCEPT ![w] = NoLocals]
    /\ Untouched("response")
    /\ UNCHANGED db

NextFallback ==
    \/ \E w \in Workers, pid \in {"p1", "p2"},
          op \in Sweepers \cup {"player_leave"} : BeginRequest(w, op, pid)
    \/ \E w \in Workers : Acquire(w, "cs_acquire", "cs_sweep")
    \/ \E w \in Workers : CsSweep(w)
    \/ \E w \in Workers : Release(w, "cs_release", AfterSweep(loc[w].op))
    \/ \E w \in Workers : Acquire(w, "pj_acquire", "pj_write")
    \/ \E w \in Workers : PjWrite(w)
    \/ \E w \in Workers : Release(w, "pj_release", "pj_read")
    \/ \E w \in Workers : PjRead(w)
    \/ \E w \in Workers : Acquire(w, "pu_acquire", "pu_write")
    \/ \E w \in Workers : PuWrite(w)
    \/ \E w \in Workers : Release(w, "pu_release", "done")
    \/ \E w \in Workers : Acquire(w, "pl_acquire", "pl_del")
    \/ \E w \in Workers : PlDel(w)
    \/ \E w \in Workers : Release(w, "pl_release", "done")
    \/ \E w \in Workers : Acquire(w, "ga_acquire", "ga_read")
    \/ \E w \in Workers : GaRead(w)
    \/ \E w \in Workers : Release(w, "ga_release", "done")
    \/ \E w \in Workers : NextRequest(w)
    \/ FallbackTime

SpecFallback == InitFallback /\ [][NextFallback]_vars

\* C23: every step of a handler that reads or writes active_players is
\* taken by a thread that holds players_lock.
C23_LockHeld ==
    last.op \in Sweepers \cup {"player_leave"} => last.ret = "held"

\* ---------------------------------------------------------------------
\* The room requests of server.py with USE_REDIS on.  ret is the HTTP
\* status of the response; code stands for code.upper() of the path.  An
\* exception of the registry call is caught by the try/except of the create
\* and join requests (500), and ends the other requests with Flask's 500.

\* POST /api/rooms/create
server_create_room(d, cands, player_id, mode) ==
    IF player_id = None THEN [db |-> d, ret |-> "400"]
    ELSE IF mode \notin {"coop", "versus"} THEN [db |-> d, ret |-> "400"]
    ELSE [db |-> create_room(d, cands, player_id, NameOf(player_id), mode).db,
          ret |-> "200"]

\* POST /api/rooms/join/<code>
server_join_room(d, code, player_id) ==
    IF player_id = None THEN [db |-> d, ret |-> "400"]
    ELSE LET r == join_room(d, code, player_id, NameOf(player_id))
         IN IF r.ret = "KeyError" THEN [db |-> r.db, ret |-> "500"]
            ELSE IF r.ret = "room" THEN [db |-> r.db, ret |-> "200"]
            ELSE [db |-> r.db, ret |-> "400"]

\* POST /api/rooms/leave
server_leave_room(d, player_id) ==
    IF player_id = None THEN [db |-> d, ret |-> "400"]
    ELSE LET room_code == get_player_room(d, player_id)
         IN IF room_code = None THEN [db |-> d, ret |-> "200"]
            ELSE LET r == leave_room(d, room_code, player_id)
                 IN [db |-> r.db,
                     ret |-> IF r.ret = "KeyError" THEN "500" ELSE "200"]

\* POST /api/rooms/<code>/ready
server_toggle_ready(d, code, player_id, ready) ==
    IF player_id = None THEN [db |-> d, ret |-> "400"]
    ELSE LET r == set_player_ready(d, code, player_id, ready)
         IN [db |-> r.db,
             ret |-> IF r.ret = "None" THEN "404"
                     ELSE IF r.ret = "KeyError" THEN "500" ELSE "200"]

\* POST /api/rooms/<code>/start
server_start_game(d, code, player_id) ==
    LET room == get_room(d, code)
    IN IF room = NoRoom THEN [db |-> d, ret |-> "404"]
       ELSE IF room.host_id = None THEN [db |-> d, ret |-> "500"]
       ELSE IF room.host_id # player_id THEN [db |-> d, ret |-> "403"]
       ELSE LET r == start_room_game(d, code)
            IN [db |-> r.db,
                ret |-> IF r.ret = "True" THEN "200"
                        ELSE IF r.ret = "KeyError" THEN "500" ELSE "400"]

ServerCreateRoom(cands, player_id, mode) ==
    LET r == server_create_room(db, cands, player_id, mode)
    IN /\ db' = r.db
       /\ last' = [op |-> "create_room", ret |-> r.ret]
       /\ UNCHANGED <<pc, loc>>

ServerJoinRoom(code, player_id) ==
    LET r == server_join_room(db, code, player_id)
    IN /\ db' = r.db
       /\ last' = [op |-> "join_room", ret |-> r.ret]
       /\ UNCHANGED <<pc, loc>>

ServerLeaveRoom(player_id) ==
    LET r == server_leave_room(db, player_id)
    IN /\ db' = r.db
       /\ last' = [op |-> "leave_room", ret |-> r.ret]
       /\ UNCHANGED <<pc, loc>>

ServerToggleReady(code, player_id, ready) ==
    LET r == server_toggle_ready(db, code, player_id, ready)
    IN /\ db' = r.db
       /\ last' = [op |-> "toggle_ready", ret |-> r.ret]
       /\ UNCHANGED <<pc, loc>>

ServerStartGame(code, player_id) ==
    LET r == server_start_game(db, code, player_id)
    IN /\ db' = r.db
       /\ last' = [op |-> "start_game", ret |-> r.ret]
       /\ UNCHANGED <<pc, loc>>

\* The room requests on the codes cs from the players ps, a request
\* without playerId among them.
Server(cs, ps) ==
    \/ \E cands \in Cands(cs), pid \in ps \cup {None} :
           ServerCreateRoom(cands, pid, "versus")
    \/ \E code \in cs, pid \in ps \cup {None} : ServerJoinRoom(code, pid)
    \/ \E pid \in ps \cup {None} : ServerLeaveRoom(pid)
    \/ \E code \in cs, pid \in ps \cup {None}, ready \in BOOLEAN :
           ServerToggleReady(code, pid, ready)
    \/ \E code \in cs, pid \in ps \cup {None} : ServerStartGame(code, pid)

\* The room requests and the relay's end of game, on one room code.
NextServer ==
    \/ Server({"c1"}, Players)
    \/ \E winner_id \in {None, "p1"} : HandleMatchEnd("c1", winner_id, TRUE)
    \/ HandleGameOver("c1", TRUE)

SpecServer == Init /\ [][NextServer]_vars

\* The room requests alone.
NextServerRooms == Server({"c1"}, Players)

SpecServerRooms == Init /\ [][NextServerRooms]_vars

\* C24: a join request for a room that does not exist is answered 404, for
\* a room that is full or has started 409, and without a player id 400.
C24_JoinStatuses ==
    \A code \in {"c1"}, pid \in Players \cup {None} :
        LET room == get_room(db, code)
            r == server_join_room(db, code, pid)
        IN /\ pid = None => r.ret = "400"
           /\ (pid # None /\ room = NoRoom) => r.ret = "404"
           /\ (/\ pid # None
               /\ room # NoRoom
               /\ \/ room.status \notin {None, "waiting"}
                  \/ room.has_players /\ Len(room.players) >= 2)
                  => r.ret = "409"

\* A start request from pid, who is not the host of the room, is answered
\* 403 and writes nothing.
NonHostForbidden(d, code, pid) ==
    LET room == get_room(d, code)
        r == server_start_game(d, code, pid)
    IN (room # NoRoom /\ room.host_id # pid) => (r.ret = "403" /\ r.db = d)

\* The host's start request is accepted when two ready players are seated.
HostAccepted(d, code, pid) ==
    LET room == get_room(d, code)
        r == server_start_game(d, code, pid)
    IN (/\ room # NoRoom
        /\ room.host_id = pid
        /\ room.has_players
        /\ Len(room.players) = 2
        /\ AllReady(room.players))
           => (r.ret = "200" /\ get_room(r.db, code).status = "playing")

\* The leave request of the host h left q alone in the room.
Promoted(code, h, q) ==
    /\ get_room(db, code).host_id = h
    /\ Len(Roster(db, code)) = 2
    /\ Seated(Roster(db, code), h)
    /\ Seated(Roster(db, code), q)
    /\ h # q
    /\ last'.op = "leave_room"
    /\ get_room(db', code) # NoRoom
    /\ Len(Roster(db', code)) = 1
    /\ Seated(Roster(db', code), q)

\* C25: a start request from anyone but the host of the room is answered
\* 403 and changes nothing; once the host has left, the player who stayed
\* is the host whose start request passes, and the one who left is refused.
C25_HostOnly ==
    /\ [](\A pid \in Players \cup {None} :
              /\ NonHostForbidden(db, "c1", pid)
              /\ HostAccepted(db, "c1", pid))
    /\ [][\A h \in Players, q \in Players :
              Promoted("c1", h, q) =>
                  /\ server_start_game(db', "c1", q).ret \in {"200", "400"}
                  /\ server_start_game(db', "c1", h).ret = "403"]_vars

\* C26: the entry find_match consumes for its caller p is, among the
\* entries of the mode queue that are not p's, one with the earliest
\* joined_at: no entry of another player that was enqueued before it is
\* left behind.
C26_OldestFirst ==
    \A cands \in Cands({"c1"}), p \in Players, mode \in Modes :
        LET queue == db.matchmaking[mode]
            r == find_match(db, cands, p, mode)
            left == {r.db.matchmaking[mode][j] :
                        j \in 1..Len(r.db.matchmaking[mode])}
        IN r.ret # None =>
               \E i \in 1..Len(queue) :
                   /\ queue[i].id = r.opponent
                   /\ queue[i] \notin left
                   /\ \A k \in 1..Len(queue) :
                          queue[k].id # p =>
                              queue[i].joined_at <= queue[k].joined_at

\* find_match just made a room for its caller and the oldest of two other
\* queued players: the one enqueued second is still in the queue, outside
\* the room.
C26_Witness ==
    /\ last = [op |-> "FindMatch", ret |-> "c1"]
    /\ Len(Roster(db, "c1")) = 2
    /\ \E mode \in Modes :
           /\ Len(db.matchmaking[mode]) = 1
           /\ db.matchmaking[mode][1].joined_at = 2
           /\ ~Seated(Roster(db, "c1"), db.matchmaking[mode][1].id)

\* C27: set_player_ready(code, p, ready) on a room that exists leaves every
\* key but the room hash alone and, in the hash, every field but the roster;
\* the roster keeps its length and order and every entry but p's, whose
\* ready flag alone becomes ready (no entry changes when p is not seated);
\* on an absent room it returns None and writes nothing.
C27_ReadyFrame ==
    \A c \in {"c1"}, p \in Players, ready \in BOOLEAN :
        LET room == get_room(db, c)
            r == set_player_ready(db, c, p, ready)
            new == get_room(r.db, c)
        IN /\ room = NoRoom => (r.ret = "None" /\ r.db = db)
           /\ [r.db EXCEPT !.room[c] = db.room[c],
                           !.room_ttl[c] = db.room_ttl[c]] = db
           /\ [new EXCEPT !.players = room.players] = room
           /\ Len(new.players) = Len(room.players)
           /\ \A i \in 1..Len(room.players) :
                  new.players[i] =
                      IF room.players[i].id = p
                      THEN [room.players[i] EXCEPT !.ready = ready]
                      ELSE room.players[i]

\* The second player of a room in play has just been set not ready: the
\* host's flag and the status are as they were.
C27_Witness ==
    /\ last = [op |-> "SetReady", ret |-> "room"]
    /\ get_room(db, "c1").status = "playing"
    /\ Len(Roster(db, "c1")) = 2
    /\ Roster(db, "c1")[1].ready
    /\ ~Roster(db, "c1")[2].ready

\* C28: when game_started has just been emitted to a room, the status of
\* that room in the registry is playing.
C28_StartedIsPlaying ==
    (last.op = "game_started" /\ last.ret = "emit") =>
        get_room(db, last.code).status = "playing"

\* ---------------------------------------------------------------------
\* Room game-state snapshots: the keys mp_state:<room_code>.  In this
\* specification db is that part of the keyspace: mp_state[k] is the text
\* stored under the room code k (None: no key), mp_state_ttl[k] the seconds
\* it has left, now the time.  Room codes are texts as a client sends them,
\* one string per character, so that str.upper() acts on them.

MULTIPLAYER_STATE_TTL == 10

\* The seconds watched.
MaxStateTime == 12

\* Room codes as clients send them, in either case.
CodeTexts == {<<"A", "B">>, <<"a", "b">>, <<"X", "Y">>}

\* A request without roomCode, or with an empty one.
NoCodeText == <<>>

\* The payloads posted; None is a request without 'state' or with an empty
\* one.
States == {"s1", "s2"}

\* str.upper(), character by character.
UpperChar(ch) ==
    CASE ch = "a" -> "A"
      [] ch = "b" -> "B"
      [] ch = "x" -> "X"
      [] ch = "y" -> "Y"
      [] OTHER -> ch

upper(code) == [i \in 1..Len(code) |-> UpperChar(code[i])]

\* json.dumps(state) and json.loads(data) of a payload.
state_dumps(state) == <<"json", state>>

state_loads(data) == data[2]

NoStates ==
    [mp_state |-> [k \in CodeTexts |-> <<>>],
     mp_state_ttl |-> [k \in CodeTexts |-> 0],
     now |-> 0]

\* r.set(f"mp_state:{room_code}", json.dumps(state), ex=MULTIPLAYER_STATE_TTL)
set_multiplayer_state(d, room_code, state) ==
    [d EXCEPT !.mp_state[room_code] = state_dumps(state),
              !.mp_state_ttl[room_code] = MULTIPLAYER_STATE_TTL]

\* r.get(f"mp_state:{room_code}"), decoded; None when there is no key.
get_multiplayer_state(d, room_code) ==
    IF d.mp_state[room_code] = <<>> THEN None
    ELSE state_loads(d.mp_state[room_code])

\* r.delete(f"mp_state:{room_code}")
delete_multiplayer_state(d, room_code) ==
    [d EXCEPT !.mp_state[room_code] = <<>>, !.mp_state_ttl[room_code] = 0]

\* POST /api/multiplayer/state: the key is roomCode as sent.
update_multiplayer_state(d, room_code, state) ==
    IF room_code = NoCodeText \/ state = None THEN [db |-> d, ret |-> "400"]
    ELSE [db |-> set_multiplayer_state(d, room_code, state), ret |-> "200"]

\* GET /api/multiplayer/state/<room_code>: the 'state' of the response, read
\* under room_code.upper().
server_get_multiplayer_state(d, room_code) ==
    get_multiplayer_state(d, upper(room_code))

\* POST /api/multiplayer/end, on the snapshots: the key of
\* room_code.upper() is deleted (its registry write is end_room_game).
end_multiplayer_game(d, room_code) ==
    IF room_code = NoCodeText THEN [db |-> d, ret |-> "400"]
    ELSE [db |-> delete_multiplayer_state(d, upper(room_code)), ret |-> "200"]

\* dt seconds pass over the snapshots.
ElapseStates(d, dt) ==
    [d EXCEPT !.mp_state = [k \in CodeTexts |->
                               IF Lapsed(d.mp_state_ttl[k], dt) THEN <<>> ELSE @[k]],
              !.mp_state_ttl = [k \in CodeTexts |-> Aged(@[k], dt)],
              !.now = @ + dt]

InitStates ==
    /\ db = NoStates
    /\ last = NoCall
    /\ pc = [w \in Workers |-> "idle"]
    /\ loc = [w \in Workers |-> NoLocals]

UpdateMultiplayerState(room_code, state) ==
    LET r == update_multiplayer_state(db, room_code, state)
    IN /\ db' = r.db
       /\ last' = [op |-> "update_multiplayer_state", ret |-> r.ret]
       /\ UNCHANGED <<pc, loc>>

GetMultiplayerState(room_code) ==
    /\ last' = [op |-> "get_multiplayer_state",
                ret |-> server_get_multiplayer_state(db, room_code)]
    /\ UNCHANGED <<db, pc, loc>>

EndMultiplayerGame(room_code) ==
    LET r == end_multiplayer_game(db, room_code)
    IN /\ db' = r.db
       /\ last' = [op |-> "end_multiplayer_game", ret |-> r.ret]
       /\ UNCHANGED <<pc, loc>>

StatesTick ==
    /\ db.now + 1 <= MaxStateTime
    /\ db' = ElapseStates(db, 1)
    /\ last' = [op |-> "Tick", ret |-> None]
    /\ UNCHANGED <<pc, loc>>

NextStates ==
    \/ \E room_code \in CodeTexts \cup {NoCodeText}, state \in States \cup {None} :
           UpdateMultiplayerState(room_code, state)
    \/ \E room_code \in CodeTexts : GetMultiplayerState(room_code)
    \/ \E room_code \in CodeTexts \cup {NoCodeText} : EndMultiplayerGame(room_code)
    \/ StatesTick

SpecStates == InitStates /\ [][NextStates]_vars

\* C29: a snapshot posted for the room code c is what a get for c returns
\* during the 10 seconds that follow, and the get returns nothing after
\* them; nothing is returned while nothing has been written; and the post
\* leaves what a get returns for every other code as it was.
C29_Snapshot ==
    /\ last.op = "init" =>
           \A c \in CodeTexts : server_get_multiplayer_state(db, c) = None
    /\ \A c \in CodeTexts, state \in States :
           LET w == update_multiplayer_state(db, c, state).db
           IN /\ \A dt \in 0..MULTIPLAYER_STATE_TTL :
                      server_get_multiplayer_state(ElapseStates(w, dt), c) = state
              /\ server_get_multiplayer_state(
                     ElapseStates(w, MULTIPLAYER_STATE_TTL + 1), c) = None
              /\ \A c2 \in CodeTexts :
                     upper(c2) # upper(c) =>
                         server_get_multiplayer_state(w, c2) =
                             server_get_multiplayer_state(db, c2)

\* C30: a room whose status is playing does not run out before 20 minutes
\* have passed since started_at, and neither set_player_ready nor the relay's
\* ready_status leaves it fewer seconds to live than it had.
C30_PlayingLifetime ==
    \A c \in {"c1"} :
        LET room == get_room(db, c)
        IN (room # NoRoom /\ room.status = "playing") =>
               /\ db.now + db.room_ttl[c] >= room.started_at + PLAYING_TTL
               /\ \A p \in Players, ready \in BOOLEAN :
                      /\ set_player_ready(db, c, p, ready).db.room_ttl[c]
                             >= db.room_ttl[c]
                      /\ handle_ready_status(db, c, p, ready, TRUE).db.room_ttl[c]
                             >= db.room_ttl[c]

\* C31: in every room whose roster has two entries one entry has slot 1 and
\* the other slot 2.
C31_SlotsApart ==
    \A c \in Codes :
        Len(Roster(db, c)) = 2 =>
            {Roster(db, c)[1].slot, Roster(db, c)[2].slot} = {1, 2}

\* C32: in every room with a roster that is not empty, host_id and host_name
\* are the id and the name of the first roster entry.
C32_HostIsFirst ==
    \A c \in Codes :
        LET room == get_room(db, c)
        IN (room # NoRoom /\ Len(room.players) > 0) =>
               /\ room.host_id = room.players[1].id
               /\ room.host_name = room.players[1].name

\* The host has just left a room of two: the player who joined second is
\* alone in it and is its host.
C32_Witness ==
    /\ last = [op |-> "LeaveRoom", ret |-> "True"]
    /\ Len(Roster(db, "c1")) = 1
    /\ Roster(db, "c1")[1].slot = 2
    /\ get_room(db, "c1").host_id = Roster(db, "c1")[1].id

\* C33: whenever get_player_room(p) returns a code, get_room of that code
\* returns a room and p is in its roster.
C33_NoDangling ==
    \A p \in Players, c \in Codes :
        get_player_room(db, p) = c =>
            /\ get_room(db, c) # NoRoom
            /\ Seated(Roster(db, c), p)

\* C34: on a code whose room is absent, end_room_game, set_player_ready,
\* join_room, leave_room and start_room_game leave the room absent.
C34_OnlyCreate ==
    \A c \in {"c1"}, p \in Players :
        get_room(db, c) = NoRoom =>
            /\ \A winner_id \in {None, p} :
                   get_room(end_room_game(db, c, winner_id).db, c) = NoRoom
            /\ \A ready \in BOOLEAN :
                   get_room(set_player_ready(db, c, p, ready).db, c) = NoRoom
            /\ get_room(join_room(db, c, p, NameOf(p)).db, c) = NoRoom
            /\ get_room(leave_room(db, c, p).db, c) = NoRoom
            /\ get_room(start_room_game(db, c).db, c) = NoRoom

\* C35: the code create_room returns named no room when the call began, and
\* every room that existed then has the host, roster and status it had.
C35_NeverOverwrite ==
    \A cands \in Cands({"c1"}), p \in Players :
        LET r == create_room(db, cands, p, NameOf(p), "versus")
        IN /\ get_room(db, r.ret) = NoRoom
           /\ \A c \in Codes :
                  get_room(db, c) # NoRoom =>
                      /\ get_room(r.db, c).host_id = get_room(db, c).host_id
                      /\ get_room(r.db, c).players = get_room(db, c).players
                      /\ get_room(r.db, c).status = get_room(db, c).status

\* C36: leave_room(code, p) for a player p who is not in the roster of the
\* room leaves the roster, host and status of the room and the room
\* back-reference of p as they were.
C36_LeaveByStranger ==
    \A c \in Codes, p \in Players :
        LET room == get_room(db, c)
            r == leave_room(db, c, p)
        IN (room # NoRoom /\ room.has_players /\ ~Seated(room.players, p)) =>
               /\ get_room(r.db, c).players = room.players
               /\ get_room(r.db, c).host_id = room.host_id
               /\ get_room(r.db, c).status = room.status
               /\ get_player_room(r.db, p) = get_player_room(db, p)

\* C37: the opponent find_match returns, who is seated as host of the room
\* of the match, is a player whose queue back-reference is still there.
C37_NoAbandoned ==
    \A cands \in Cands({"c1"}), p \in Players, mode \in Modes :
        LET r == find_match(db, cands, p, mode)
        IN r.ret # None => is_in_queue(db, r.opponent) # None

\* ---------------------------------------------------------------------
\* set_player_ready one command at a time, beside join_room.

\* set_player_ready: room = get_room(code) and the loop over the roster it
\* read; loc.room.players is the local list with the flag set.
BeginSetReady(w, code, pid, ready) ==
    LET room == get_room(db, code)
        l == [NoLocals EXCEPT !.op = "SetReady", !.code = code, !.pid = pid]
    IN /\ pc[w] = "idle"
       /\ UNCHANGED db
       /\ IF room = NoRoom THEN Return(w, l, "None")
          ELSE IF ~room.has_players THEN Return(w, l, "KeyError")
          ELSE Goto(w, "sr_hset",
                    [l EXCEPT !.room = [room EXCEPT !.players =
                                           MarkReady(room.players, pid, ready)]])

\* r.hset(f"room:{code}", 'players', json.dumps(players))
SrHSet(w) ==
    /\ pc[w] = "sr_hset"
    /\ db' = HSetPlayers(db, loc[w].code, loc[w].room.players)
    /\ Goto(w, "sr_expire", loc[w])

\* r.expire(f"room:{code}", ROOM_TTL), and the return of the room.
SrExpire(w) ==
    /\ pc[w] = "sr_expire"
    /\ db' = ExpireRoom(db, loc[w].code, ROOM_TTL)
    /\ Return(w, loc[w], "room")

\* Two workers each run join_room or set_player_ready on a room that
\* completed create_room and join_room calls made and filled.
NextRosterRace ==
    \/ /\ Idle
       /\ \E cands \in Cands({"c1"}), pid \in Players :
              CreateRoom(cands, pid, "versus")
    \/ /\ Idle
       /\ \E pid \in Players : JoinRoom("c1", pid)
    \/ \E w \in Workers, pid \in Players : BeginJoinRoom(w, "c1", pid)
    \/ \E w \in Workers : JoinRoomSteps(w)
    \/ \E w \in Workers, pid \in Players, ready \in BOOLEAN :
           BeginSetReady(w, "c1", pid, ready)
    \/ \E w \in Workers : SrHSet(w)
    \/ \E w \in Workers : SrExpire(w)

SpecRosterRace == Init /\ [][NextRosterRace]_vars

\* C38: once a join_room and a set_player_ready, or two set_player_ready,
\* for different players have both returned the room, the stored roster
\* seats the player who joined and shows ready for every player whose call
\* set their flag to true.
C38_NoLostWrite ==
    (/\ \A w \in Workers : pc[w] = "done" /\ loc[w].ret = "room"
     /\ loc["w1"].pid # loc["w2"].pid)
    => \A w \in Workers :
           /\ loc[w].op = "JoinRoom" => Seated(Roster(db, "c1"), loc[w].pid)
           /\ (/\ loc[w].op = "SetReady"
               /\ \E i \in 1..Len(loc[w].room.players) :
                      /\ loc[w].room.players[i].id = loc[w].pid
                      /\ loc[w].room.players[i].ready)
              => \E i \in 1..Len(Roster(db, "c1")) :
                     /\ Roster(db, "c1")[i].id = loc[w].pid
                     /\ Roster(db, "c1")[i].ready

\* C39: at every step of a find_match that has picked an opponent from the
\* queue, the opponent has a queue back-reference or a room back-reference.
C39_NoLimbo ==
    \A w \in Workers :
        (/\ pc[w] \notin {"idle", "done"}
         /\ loc[w].op = "FindMatch"
         /\ loc[w].entry # NoEntry)
        => \/ is_in_queue(db, loc[w].entry.id) # None
           \/ get_player_room(db, loc[w].entry.id) # None

\* C40: once two find_match calls, each by the player whose entry the other
\* picked, have both returned a match, each of the two players is seated in
\* exactly one room, the same one, and one of them is its host.
C40_MutualMatch ==
    (/\ \A w \in Workers :
            pc[w] = "done" /\ loc[w].op = "FindMatch" /\ loc[w].ret # None
     /\ loc["w1"].entry.id = loc["w2"].pid
     /\ loc["w2"].entry.id = loc["w1"].pid)
    => LET a == loc["w1"].pid
           b == loc["w2"].pid
           seats(p) == {c \in Codes : Seated(Roster(db, c), p)}
       IN /\ Cardinality(seats(a)) = 1
          /\ seats(a) = seats(b)
          /\ \A c \in seats(a) : get_room(db, c).host_id \in {a, b}

====
